---- MODULE Spec2Model ----
(***************************************************************************)
(* Slideshow generator: backend/api/video_generator.py, generate_video and *)
(* the helpers it calls, as called by backend/api/views.py.                *)
(*                                                                         *)
(* Units.  Times are integers counting tenths of a second (0.3 s = 3), so  *)
(* that the arithmetic of the scheduler is exact.  Darken factors are      *)
(* integers counting tenths (0.4 = 4, 1.0 = 10).  A position percentage is *)
(* an integer counting hundredths of a percent (50.05 % = 5005).           *)
(* Slide indices are the 0-based indices of the Python code; At0 reads a   *)
(* TLA+ sequence at a 0-based index.                                       *)
(***************************************************************************)
EXTENDS Integers, Sequences, FiniteSets, TLC

VARIABLES
    texts,                  \* argument: the captions, in order
    image_paths,            \* argument: the image paths, in order
    music_path,             \* argument: None, or a path
    size,                   \* argument: <<width, height>>
    positions,              \* argument: per-slide position strings
    durations,              \* argument: per-slide durations (None or a list)
    darkening,              \* argument: None, a scalar, or a list
    transitions,            \* argument: per-slide transition names
    image_effects,          \* argument: per-slide image effect names
    unrenderable,           \* environment: the captions TextClip raises on
    missing_images,         \* environment: the image paths ImageClip raises on
    pc,                     \* where generate_video is
    i,                      \* loop index of the slide loop
    available_transitions,  \* the shuffled pool, as the set still to pop
    image_clips,            \* list of image layers built
    text_clips,             \* list of text layers built
    slide_durations,        \* list of durations of the slides prepared
    base_track,             \* the folded image track (final_video, l.522-526)
    start_times,            \* image start times
    text_start_times,       \* text start times
    warnings,               \* overlap diagnostics printed
    final_video,            \* the composite handed to the renderer
    temp_audio,             \* local temp_audio of generate_video
    temp_file,              \* file system: does temp_looped_audio.mp3 exist
    temp_writer,            \* file system: whose export the file holds
    other,                  \* a second invocation, in another request thread
    audio_open,             \* is the AudioFileClip handle open
    write_called,           \* was write_videofile called
    error                   \* the exception generate_video raised, or "none"

vars == <<texts, image_paths, music_path, size, positions, durations, darkening,
          transitions, image_effects, unrenderable, missing_images, pc, i,
          available_transitions, image_clips, text_clips, slide_durations, base_track, start_times, text_start_times, warnings,
          final_video, temp_audio, temp_file, temp_writer, other, audio_open,
          write_called, error>>

args == <<texts, image_paths, music_path, size, positions, durations, darkening,
          transitions, image_effects, unrenderable, missing_images>>

build == <<i, available_transitions, image_clips, text_clips, slide_durations>>

timeline == <<base_track, start_times, text_start_times, warnings, final_video>>

audio_state == <<temp_audio, temp_file, temp_writer, audio_open, write_called>>

-----------------------------------------------------------------------------
(* Bounds of the model *)

MaxTexts == 3
MaxImages == 2
MaxPositionTexts == 2
MaxVarietyTexts == 4
MaxNameTexts == 1

(* Program constants *)

TRANSITION_DURATION == 3
MIN_TEXT_DURATION == 1
DEFAULT_DURATION == 40
DEFAULT_DARKEN == 10
MIN_Y == 40
BOTTOM_MARGIN == 100

TEXT_TRANSITIONS ==
    {"fade", "slide_left", "slide_right", "slide_top", "slide_bottom",
     "zoom", "typewriter", "glitch", "rotate"}

None == "None"

At0(seq, k) == seq[k + 1]

Max(a, b) == IF a >= b THEN a ELSE b

Min(a, b) == IF a <= b THEN a ELSE b

SeqsUpTo(S, n) == UNION {[1..k -> S] : k \in 0..n}

Range(s) == {s[k] : k \in 1..Len(s)}

-----------------------------------------------------------------------------
(* Pure helpers of the slide loop *)

\* Mutant of ImagePathOf: past the end of the list the last image is reused
ImagePathOf_LastImage(paths, k) == At0(paths, Min(k, Len(paths) - 1))

\* l.452: image_paths[i % len(image_paths)]
ImagePathOf(paths, k) == At0(paths, k % Len(paths))

\* l.454: durations[i] if durations and i < len(durations) else duration_per_slide;
\* durations=None and durations=[] take the same branch and are both <<>> here
SlideDurationOf(durs, k) ==
    IF durs # <<>> /\ k < Len(durs) THEN At0(durs, k) ELSE DEFAULT_DURATION

\* Mutant of TxtDuration: one crossfade is left out of the text duration
TxtDuration_OneTau(slide_duration) ==
    Max(slide_duration - TRANSITION_DURATION, MIN_TEXT_DURATION)

\* l.472: max(slide_duration - 2 * TRANSITION_DURATION, 0.1); the code has no
\* case for the last slide
TxtDuration(slide_duration) ==
    Max(slide_duration - 2 * TRANSITION_DURATION, MIN_TEXT_DURATION)

\* Mutant of DarkenValue: a list that is too short lends its last value
DarkenValue_ReuseLast(dark, k) ==
    IF dark.kind = "list" /\ dark.list # <<>>
    THEN At0(dark.list, Min(k, Len(dark.list) - 1))
    ELSE IF dark.kind = "scalar" THEN dark.value
    ELSE DEFAULT_DARKEN

\* l.495-497: the darken factor of slide k
DarkenValue(dark, k) ==
    IF dark.kind = "list" /\ k < Len(dark.list) THEN At0(dark.list, k)
    ELSE IF dark.kind = "scalar" THEN dark.value
    ELSE DEFAULT_DARKEN

\* int(): truncation toward zero of a / b, b > 0
Trunc(a, b) == IF a >= 0 THEN a \div b ELSE -((-a) \div b)

\* round(): a / b rounded to the nearest integer, b > 0
RoundDiv(a, b) == (2 * a + b) \div (2 * b)

\* Mutant of YPos: round() in the place of int()
YPos_Round(centi, H) == Max(MIN_Y, Min(RoundDiv(H * centi, 10000), H - BOTTOM_MARGIN))

\* l.459-460: y_pos = int(H * percent / 100.0), clamped by max(40, min(y, H - 100));
\* centi is the percentage in hundredths of a percent
YPos(centi, H) == Max(MIN_Y, Min(Trunc(H * centi, 10000), H - BOTTOM_MARGIN))

\* l.453: positions[i] if i < len(positions) and positions[i].strip() else None
NoPosition == [kind |-> "none", centi |-> 0]

PositionPercent(pos, k) ==
    IF k < Len(pos) /\ At0(pos, k).kind \notin {"empty", "blank"} THEN At0(pos, k)
    ELSE NoPosition

Center == [kind |-> "center", y |-> 0]

\* l.456-466: float() raises ValueError on text; int() raises ValueError on nan
\* and OverflowError on inf; each is caught and the text is centered
TextPosition(pos, k, H) ==
    LET position_percent == PositionPercent(pos, k)
    IN  IF position_percent = NoPosition THEN Center
        ELSE IF position_percent.kind = "number"
             THEN [kind |-> "y", y |-> YPos(position_percent.centi, H)]
             ELSE Center

\* l.469: transitions[i].strip() if transitions and i < len(transitions) and
\* transitions[i].strip(), else a draw
ExplicitTransition(trans, k) ==
    IF k < Len(trans) /\ At0(trans, k) # "" THEN At0(trans, k) ELSE None

\* l.448-449, 470: available_transitions.pop() of the shuffled copy if any is
\* left, else random.choice(TEXT_TRANSITIONS).  The pool is kept as the set of
\* names not popped yet: over all outcomes of random.shuffle, pop() yields any
\* of them.
DrawnTransitions(pool) == IF pool # {} THEN pool ELSE TEXT_TRANSITIONS

\* Mutant of PoolAfter: the drawn name stays in the pool
PoolAfter_NoPop(trans, k, pool, name) == pool

TransitionChoices(trans, k, pool) ==
    IF ExplicitTransition(trans, k) # None THEN {ExplicitTransition(trans, k)}
    ELSE DrawnTransitions(pool)

PoolAfter(trans, k, pool, name) ==
    IF ExplicitTransition(trans, k) # None THEN pool ELSE pool \ {name}

\* Mutant of ApplyImageTransition: the two clips are laid end to end
ApplyImageTransition_NoOverlap(clip1, clip2, duration) ==
    [duration |-> clip1.duration + clip2.duration,
     starts   |-> Append(clip1.starts, clip1.duration)]

\* l.185-189: the crossfade of two clips; a clip is [duration, starts], starts
\* being the start time of each image layer inside it
ApplyImageTransition(clip1, clip2, duration) ==
    [duration |-> clip1.duration + clip2.duration - duration,
     starts   |-> Append(clip1.starts, clip1.duration - duration)]

\* l.522-526: fold of image_clips[0..k-1]
RECURSIVE FoldImages(_, _)
FoldImages(clips, k) ==
    IF k = 1 THEN [duration |-> clips[1].duration, starts |-> <<0>>]
    ELSE ApplyImageTransition(FoldImages(clips, k - 1),
                              [duration |-> clips[k].duration, starts |-> <<0>>],
                              TRANSITION_DURATION)

\* Mutant of NextStart: the crossfade is not subtracted
NextStart_NoCrossfade(prev, dur) == prev + dur

\* l.533: next_start = start_times[-1] + dur - TRANSITION_DURATION
NextStart(prev, dur) == prev + dur - TRANSITION_DURATION

\* l.528-535: start_times for slide_durations
RECURSIVE StartTimes(_)
StartTimes(durs) ==
    IF Len(durs) <= 1 THEN <<0>>
    ELSE LET before == StartTimes(SubSeq(durs, 1, Len(durs) - 1))
         IN  Append(before,
                    NextStart(before[Len(before)], durs[Len(durs) - 1]))

\* l.540: start_time = s + TRANSITION_DURATION
TextStart(s) == s + TRANSITION_DURATION

\* l.538-541
TextStartTimes(starts) == [k \in 1..Len(starts) |-> TextStart(starts[k])]

\* Mutant of NoSlides: the test looks at the text layers
NoSlides_TextClips(images, txts) == txts = <<>>

\* l.519: if not image_clips
NoSlides(images, txts) == images = <<>>

\* l.504: image_effects[i].strip() if image_effects and i < len(image_effects)
\* and image_effects[i].strip() else None
EffectName(effects, k) ==
    IF k < Len(effects) /\ At0(effects, k) # "" THEN At0(effects, k) ELSE None

\* l.51-63
IMAGE_EFFECTS ==
    {"depth_zoom", "ken_burns", "film_grain", "ripple", "light_pulse",
     "parallax_pan", "color_tint_shift", "wave_scan", "parallax_slide",
     "tilted_perspective", "depth_swing"}

\* str.split("_") on the names the model uses: the fields between underscores
SplitUnderscore(name) ==
    CASE name = "slide_left"       -> <<"slide", "left">>
      [] name = "slide_right"      -> <<"slide", "right">>
      [] name = "slide_top"        -> <<"slide", "top">>
      [] name = "slide_bottom"     -> <<"slide", "bottom">>
      [] name = "slide_diagonal"   -> <<"slide", "diagonal">>
      [] name = "slide_"           -> <<"slide", "">>
      [] name = "slide_left_fast"  -> <<"slide", "left", "fast">>
      [] name = "slideshow"        -> <<"slideshow">>
      [] OTHER                     -> <<name>>

\* l.77: transition.startswith("slide_")
StartsWithSlide(name) ==
    Len(SplitUnderscore(name)) >= 2 /\ SplitUnderscore(name)[1] = "slide"

\* l.79-85: start_map.get(side, (x_final, y_final)); a point is the resting
\* point "rest" or the point just outside one edge of the frame
StartPos(side) ==
    CASE side = "left"   -> "off_left"
      [] side = "right"  -> "off_right"
      [] side = "top"    -> "off_top"
      [] side = "bottom" -> "off_bottom"
      [] OTHER           -> "rest"

\* l.86-92: end_map.get(side, (x_final, y_final))
EndPos(side) ==
    CASE side = "left"   -> "off_right"
      [] side = "right"  -> "off_left"
      [] side = "top"    -> "off_bottom"
      [] side = "bottom" -> "off_top"
      [] OTHER           -> "rest"

\* A layer that is moved, faded, scaled, masked or rotated by nothing
NoAnimation == [kind |-> "none", start |-> "rest", end |-> "rest"]

\* l.65-178: what apply_text_transition attaches to the clip.  kind names the
\* time function (fadein/fadeout, the position function of a slide, resize,
\* mask, jitter, rotate); start and end are the points the position function
\* of l.94-106 interpolates from and to, around the resting point.
ApplyTextTransition(transition) ==
    IF transition = "fade"
    THEN [kind |-> "fade", start |-> "rest", end |-> "rest"]
    ELSE IF StartsWithSlide(transition)
    THEN LET side == SplitUnderscore(transition)[2]
         IN  [kind |-> "slide", start |-> StartPos(side), end |-> EndPos(side)]
    ELSE IF transition \in {"zoom", "typewriter", "glitch", "rotate"}
    THEN [kind |-> transition, start |-> "rest", end |-> "rest"]
    ELSE NoAnimation

\* l.199-359: the names apply_image_effect has a branch for
EFFECT_BRANCHES ==
    {"parallax_slide", "tilted_perspective", "depth_swing", "depth_zoom",
     "ken_burns", "film_grain", "ripple", "light_pulse", "parallax_pan",
     "color_tint_shift", "wave_scan"}

\* l.195-361 with l.505 (if effect_name): the effect the image clip gets, or
\* "unchanged" when the clip is returned as it is
ApplyImageEffect(effect_name) ==
    IF effect_name # None /\ effect_name \in EFFECT_BRANCHES THEN effect_name
    ELSE "unchanged"

\* l.474-485: the text layer of slide k
TxtClip(k, text, slide_duration, transition_name, text_position) ==
    [slide      |-> k,
     text       |-> text,
     duration   |-> TxtDuration(slide_duration),
     transition |-> transition_name,
     position   |-> text_position,
     animation  |-> ApplyTextTransition(transition_name)]

\* l.500-506: the image layer of slide k
ImgClip(k, image_path, slide_duration, darken_value, effect_name) ==
    [slide     |-> k,
     path      |-> image_path,
     duration  |-> slide_duration,
     darken    |-> darken_value,
     effect    |-> effect_name,
     transform |-> ApplyImageEffect(effect_name)]

\* l.548-557: the overlap diagnostics of slide k
OverlapWarnings(k, txts, tstarts, starts, durs) ==
    LET text_start == tstarts[k + 1]
        text_end   == text_start + txts[k + 1].duration
        img_start  == starts[k + 1]
        img_end    == img_start + durs[k + 1]
    IN  (IF text_start < img_start + TRANSITION_DURATION
         THEN {<<k, "fade-in">>} ELSE {})
        \cup
        (IF text_end > img_end - TRANSITION_DURATION
         THEN {<<k, "fade-out">>} ELSE {})

\* l.560-562: zip(text_clips, text_start_times) with t.set_start(s)
TextOverlays(txts, tstarts) ==
    [k \in 1..Min(Len(txts), Len(tstarts)) |->
        [clip |-> txts[k], start |-> tstarts[k], end |-> tstarts[k] + txts[k].duration]]

RECURSIVE MaxEnd(_, _)
MaxEnd(layers, k) ==
    IF k = 0 THEN 0 ELSE Max(layers[k].end, MaxEnd(layers, k - 1))

\* l.565: CompositeVideoClip(overlays, size=size); a composite lasts until the
\* last of its layers ends
Composite(base, overlays) ==
    [duration |-> Max(base.duration, MaxEnd(overlays, Len(overlays))),
     base     |-> base,
     texts    |-> overlays,
     audio    |-> FALSE]

NoVideo == [duration |-> 0, base |-> [duration |-> 0, starts |-> <<>>],
            texts |-> <<>>, audio |-> FALSE]

NoTrack == [duration |-> 0, starts |-> <<>>]

\* l.569, 583: music_path.exists()
MusicExists(path) == path = "music.mp3"

-----------------------------------------------------------------------------
(* generate_video *)

\* l.451-517: one iteration of the slide loop.  TextClip (l.474, text
\* rasterization) raises on an unrenderable caption and ImageClip (l.500, image
\* loading) raises on a missing image; each is caught and the loop continues.
BuildSlide ==
    /\ pc = "build"
    /\ i < Len(texts)
    /\ \E transition_name \in TransitionChoices(transitions, i, available_transitions) :
          LET text           == At0(texts, i)
              image_path     == ImagePathOf(image_paths, i)
              text_ok        == text \notin unrenderable
              image_ok       == image_path \notin missing_images
              slide_duration == SlideDurationOf(durations, i)
              text_position  == TextPosition(positions, i, size[2])
              txt_clip       == TxtClip(i, text, slide_duration, transition_name,
                                        text_position)
              darken_value   == DarkenValue(darkening, i)
              img_clip       == ImgClip(i, image_path, slide_duration, darken_value,
                                        EffectName(image_effects, i))
          IN  /\ available_transitions' =
                    PoolAfter(transitions, i, available_transitions, transition_name)
              /\ text_clips' = IF text_ok THEN Append(text_clips, txt_clip)
                               ELSE text_clips
              /\ image_clips' = IF text_ok /\ image_ok THEN Append(image_clips, img_clip)
                                ELSE image_clips
              /\ slide_durations' = IF text_ok /\ image_ok
                                    THEN Append(slide_durations, slide_duration)
                                    ELSE slide_durations
    /\ i' = i + 1
    /\ UNCHANGED <<args, other, pc, timeline, audio_state, error>>

\* l.519-520: after the loop
CheckSlides ==
    /\ pc = "build"
    /\ i = Len(texts)
    /\ IF NoSlides(image_clips, text_clips)
       THEN pc' = "raised" /\ error' = "ValueError"
       ELSE pc' = "fold" /\ error' = error
    /\ UNCHANGED <<args, other, build, timeline, audio_state>>

\* l.522-526
FoldBaseTrack ==
    /\ pc = "fold"
    /\ base_track' = FoldImages(image_clips, Len(image_clips))
    /\ pc' = "schedule"
    /\ UNCHANGED <<args, other, build, start_times, text_start_times, warnings,
                   final_video, audio_state, error>>

\* l.528-545
Schedule ==
    /\ pc = "schedule"
    /\ start_times' = StartTimes(slide_durations)
    /\ text_start_times' = TextStartTimes(StartTimes(slide_durations))
    /\ pc' = "overlap"
    /\ UNCHANGED <<args, other, build, base_track, warnings, final_video, audio_state,
                   error>>

\* l.547-557
DetectOverlaps ==
    /\ pc = "overlap"
    /\ warnings' = UNION {OverlapWarnings(k, text_clips, text_start_times,
                                          start_times, slide_durations) :
                             k \in 0..(Len(text_start_times) - 1)}
    /\ pc' = "compose"
    /\ UNCHANGED <<args, other, build, base_track, start_times, text_start_times,
                   final_video, audio_state, error>>

\* l.559-565
Compose ==
    /\ pc = "compose"
    /\ final_video' = Composite(base_track, TextOverlays(text_clips, text_start_times))
    /\ pc' = "music"
    /\ UNCHANGED <<args, other, build, base_track, start_times, text_start_times,
                   warnings, audio_state, error>>

\* l.567-570: Path(None) raises TypeError; a path that does not exist raises
\* FileNotFoundError; neither is inside a try
ResolveMusicPath ==
    /\ pc = "music"
    /\ IF music_path = None
       THEN pc' = "raised" /\ error' = "TypeError"
       ELSE IF ~MusicExists(music_path)
            THEN pc' = "raised" /\ error' = "FileNotFoundError"
            ELSE pc' = "audio" /\ error' = error
    /\ UNCHANGED <<args, other, build, timeline, audio_state>>

\* What l.572-594 can do: seamless_audio_loop raises before it exports
\* (l.367-376: unreadable source, ffmpeg missing), raises after it exported
\* (l.402-408), AudioFileClip raises (l.589), or all succeed
AudioOutcomes == {"unreadable", "export_failed", "clip_failed", "ok"}

\* l.572-594: every exception is caught and printed
LoopAudio ==
    /\ pc = "audio"
    /\ \E outcome \in AudioOutcomes :
          /\ temp_file' = (temp_file \/ outcome # "unreadable")
          /\ temp_writer' = IF outcome # "unreadable" THEN "this" ELSE temp_writer
          /\ temp_audio' = IF outcome \in {"clip_failed", "ok"}
                           THEN "temp_looped_audio.mp3" ELSE None
          /\ audio_open' = (outcome = "ok")
          /\ final_video' = [final_video EXCEPT !.audio = (outcome = "ok")]
    /\ pc' = "render"
    /\ UNCHANGED <<args, other, build, base_track, start_times, text_start_times,
                   warnings, write_called, error>>

\* l.596-606: write_videofile returns or raises
Render ==
    /\ pc = "render"
    /\ \E ok \in BOOLEAN : error' = IF ok THEN "none" ELSE "RenderError"
    /\ write_called' = TRUE
    /\ pc' = "finally"
    /\ UNCHANGED <<args, other, build, timeline, temp_audio, temp_file,
                   temp_writer, audio_open>>

\* l.607-617
Finally ==
    /\ pc = "finally"
    /\ audio_open' = FALSE
    /\ temp_file' = IF temp_audio # None /\ temp_file THEN FALSE ELSE temp_file
    /\ temp_writer' = IF temp_audio # None /\ temp_file THEN "none" ELSE temp_writer
    /\ pc' = IF error = "none" THEN "done" ELSE "raised"
    /\ UNCHANGED <<args, other, build, timeline, temp_audio, write_called, error>>

\* The audio phase of a second generate_video call (views.py l.65-74, another
\* request thread, same working directory): no second call, or where it is,
\* its local temp_audio, whether its video has the audio attached
NoOther == [pc |-> "idle", temp_audio |-> None, audio |-> FALSE, error |-> "none"]

\* l.572-594 in the second call: seamless_audio_loop exports to the same
\* os.path.abspath("temp_looped_audio.mp3") (l.397)
OtherLoopAudio ==
    /\ other.pc = "audio"
    /\ \E outcome \in AudioOutcomes :
          /\ temp_file' = (temp_file \/ outcome # "unreadable")
          /\ temp_writer' = IF outcome # "unreadable" THEN "other" ELSE temp_writer
          /\ other' = [other EXCEPT
                         !.pc = "render",
                         !.temp_audio = IF outcome \in {"clip_failed", "ok"}
                                        THEN "temp_looped_audio.mp3" ELSE None,
                         !.audio = (outcome = "ok")]
    /\ UNCHANGED <<args, pc, build, timeline, temp_audio, audio_open,
                   write_called, error>>

\* l.596-606 in the second call
OtherRender ==
    /\ other.pc = "render"
    /\ \E ok \in BOOLEAN :
          other' = [other EXCEPT !.pc = "finally",
                                 !.error = IF ok THEN "none" ELSE "RenderError"]
    /\ UNCHANGED <<args, pc, build, timeline, audio_state, error>>

\* l.607-617 in the second call
OtherFinally ==
    /\ other.pc = "finally"
    /\ temp_file' = IF other.temp_audio # None /\ temp_file THEN FALSE ELSE temp_file
    /\ temp_writer' = IF other.temp_audio # None /\ temp_file THEN "none" ELSE temp_writer
    /\ other' = [other EXCEPT !.pc = IF other.error = "none" THEN "done" ELSE "raised",
                               !.audio = FALSE]
    /\ UNCHANGED <<args, pc, build, timeline, temp_audio, audio_open,
                   write_called, error>>

Next ==
    \/ BuildSlide
    \/ CheckSlides
    \/ FoldBaseTrack
    \/ Schedule
    \/ DetectOverlaps
    \/ Compose
    \/ ResolveMusicPath
    \/ LoopAudio
    \/ Render
    \/ Finally

\* Two create_slideshow requests served at the same time
NextConcurrent ==
    \/ BuildSlide
    \/ CheckSlides
    \/ FoldBaseTrack
    \/ Schedule
    \/ DetectOverlaps
    \/ Compose
    \/ ResolveMusicPath
    \/ LoopAudio
    \/ Render
    \/ Finally
    \/ OtherLoopAudio
    \/ OtherRender
    \/ OtherFinally

-----------------------------------------------------------------------------
(* The call: generate_video as create_slideshow calls it (views.py l.45-74: *)
(* texts and images are not empty), and the locals of l.430-449.            *)

CaptionNames == <<"A", "B", "C", "D", "E", "F", "G", "H", "I", "J">>

ImageNames == <<"img0", "img1", "img2", "img3">>

Captions(n) == SubSeq(CaptionNames, 1, n)

DurationVals == {2, 10, 50}

NoDarkening == [kind |-> "none", value |-> 0, list |-> <<>>]

MusicPaths == {None, "missing.mp3", "music.mp3"}

DefaultSize == <<720, 1280>>

InitLocals ==
    /\ pc = "build"
    /\ i = 0
    /\ available_transitions = TEXT_TRANSITIONS
    /\ image_clips = <<>>
    /\ text_clips = <<>>
    /\ slide_durations = <<>>
    /\ base_track = NoTrack
    /\ start_times = <<>>
    /\ text_start_times = <<>>
    /\ warnings = {}
    /\ final_video = NoVideo
    /\ temp_audio = None
    /\ temp_file = FALSE
    /\ temp_writer = "none"
    /\ audio_open = FALSE
    /\ write_called = FALSE
    /\ error = "none"

\* Calls that vary the durations, the number of images and the music
Init ==
    /\ texts \in {Captions(n) : n \in 1..MaxTexts}
    /\ image_paths \in {SubSeq(ImageNames, 1, m) : m \in 1..MaxImages}
    /\ music_path \in MusicPaths
    /\ size = DefaultSize
    /\ positions = <<>>
    /\ durations \in [1..Len(texts) -> DurationVals] \cup {<<>>}
    /\ darkening = NoDarkening
    /\ transitions = [k \in 1..Len(texts) |-> "fade"]
    /\ image_effects = <<>>
    /\ unrenderable \in SUBSET Range(texts)
    /\ missing_images \in SUBSET Range(image_paths)
    /\ InitLocals
    /\ other = NoOther

Spec == Init /\ [][Next]_vars

\* Calls that vary the darkening argument: None, a scalar, or a list of any
\* length up to the number of texts
DarkenVals == {4, 8}

DarkeningArgs(n) ==
    {NoDarkening}
    \cup {[kind |-> "scalar", value |-> v, list |-> <<>>] : v \in DarkenVals}
    \cup {[kind |-> "list", value |-> 0, list |-> l] : l \in SeqsUpTo(DarkenVals, n)}

InitDarken ==
    /\ texts \in {Captions(n) : n \in 1..MaxTexts}
    /\ image_paths = SubSeq(ImageNames, 1, 1)
    /\ music_path \in MusicPaths
    /\ size = DefaultSize
    /\ positions = <<>>
    /\ durations = <<>>
    /\ darkening \in DarkeningArgs(Len(texts))
    /\ transitions = [k \in 1..Len(texts) |-> "fade"]
    /\ image_effects = <<>>
    /\ unrenderable \in SUBSET Range(texts)
    /\ missing_images = {}
    /\ InitLocals
    /\ other = NoOther

SpecDarken == InitDarken /\ [][Next]_vars

\* Calls that vary the position strings and the frame size.  A position string
\* is what float() makes of it: "" (empty), "  " (blank), a text float()
\* rejects, "nan", "inf", or a number, kept in hundredths of a percent.
PercentVals == {-500, -5, 0, 312, 5000, 5005, 9999, 12000}

PositionEntries ==
    {[kind |-> k, centi |-> 0] : k \in {"empty", "blank", "text", "nan", "inf"}}
    \cup {[kind |-> "number", centi |-> c] : c \in PercentVals}

Sizes == {<<720, 1280>>, <<1080, 1920>>, <<1280, 720>>}

InitPosition ==
    /\ texts \in {Captions(n) : n \in 1..MaxPositionTexts}
    /\ image_paths = SubSeq(ImageNames, 1, 1)
    /\ music_path \in MusicPaths
    /\ size \in Sizes
    /\ positions \in SeqsUpTo(PositionEntries, Len(texts))
    /\ durations = <<>>
    /\ darkening = NoDarkening
    /\ transitions = [k \in 1..Len(texts) |-> "fade"]
    /\ image_effects = <<>>
    /\ unrenderable = {}
    /\ missing_images = {}
    /\ InitLocals
    /\ other = NoOther

SpecPosition == InitPosition /\ [][Next]_vars

\* Calls that name no transition, so that each is drawn from the pool
InitVariety ==
    /\ texts \in {Captions(n) : n \in 1..MaxVarietyTexts}
    /\ image_paths = SubSeq(ImageNames, 1, 1)
    /\ music_path = "music.mp3"
    /\ size = DefaultSize
    /\ positions = <<>>
    /\ durations = <<>>
    /\ darkening = NoDarkening
    /\ transitions \in {<<>>, [k \in 1..Len(texts) |-> ""]}
    /\ image_effects = <<>>
    /\ unrenderable \in SUBSET {texts[1]}
    /\ missing_images = {}
    /\ InitLocals
    /\ other = NoOther

SpecVariety == InitVariety /\ [][Next]_vars

\* Calls that name a transition and an image effect for every slide, from the
\* catalogs and from outside them
TransitionNames ==
    TEXT_TRANSITIONS
    \cup {"bogus", "Fade", "slideshow", "slide_", "slide_diagonal", "slide_left_fast"}

EffectNames == IMAGE_EFFECTS \cup {"", "vignette", "color_grade", "Ken_Burns"}

InitNames ==
    /\ texts \in {Captions(n) : n \in 1..MaxNameTexts}
    /\ image_paths = SubSeq(ImageNames, 1, 1)
    /\ music_path = "music.mp3"
    /\ size = DefaultSize
    /\ positions = <<>>
    /\ durations = <<>>
    /\ darkening = NoDarkening
    /\ transitions \in [1..Len(texts) -> TransitionNames]
    /\ image_effects \in [1..Len(texts) -> EffectNames]
    /\ unrenderable = {}
    /\ missing_images = {}
    /\ InitLocals
    /\ other = NoOther

SpecNames == InitNames /\ [][Next]_vars


-----------------------------------------------------------------------------
(* Vocabulary of the properties *)

\* The loop is over and the composite of l.565 exists
Composed == final_video.base.starts # <<>>

Returned == pc \in {"done", "raised"}

\* Slide k (0-based) is one whose text and image can both be constructed
Survives(k) ==
    /\ At0(texts, k) \notin unrenderable
    /\ At0(image_paths, k % Len(image_paths)) \notin missing_images

SlideIndices == [k \in 1..Len(texts) |-> k - 1]

Survivors == SelectSeq(SlideIndices, Survives)

SlidesOf(clips) == [k \in 1..Len(clips) |-> clips[k].slide]

LayerSlides(layers) == [k \in 1..Len(layers) |-> layers[k].clip.slide]

RECURSIVE SumDurations(_)
SumDurations(clips) ==
    IF clips = <<>> THEN 0 ELSE Head(clips).duration + SumDurations(Tail(clips))

\* The duration the call gives slide k
GivenDuration(k) ==
    IF k < Len(durations) THEN durations[k + 1] ELSE DEFAULT_DURATION

RECURSIVE SumGiven(_)
SumGiven(slides) ==
    IF slides = <<>> THEN 0 ELSE GivenDuration(Head(slides)) + SumGiven(Tail(slides))

-----------------------------------------------------------------------------
(* Properties *)

\* C1 (as claimed): when some but not all slides fail during construction,
\* the composed timeline holds exactly the surviving slides in input order:
\* one image layer and one text layer per surviving slide, the k-th text layer
\* being the caption of the slide of the k-th image layer, and no error is
\* raised by the construction.
C1_SkipAndContinue ==
    (Composed /\ Survivors # <<>> /\ Len(Survivors) < Len(texts)) =>
        /\ SlidesOf(image_clips) = Survivors
        /\ LayerSlides(final_video.texts) = Survivors
        /\ error # "ValueError"

\* C2: the zero-slides error (ValueError, l.520) is raised if and only if no
\* slide survived construction; the construction loop itself never raises, and
\* a failure of fewer than all slides lets the call go on to compose.
C2_ZeroSlidesError ==
    /\ pc = "build" => error = "none"
    /\ error = "ValueError" => (pc = "raised" /\ Survivors = <<>> /\ image_clips = <<>>)
    /\ (pc # "build" /\ Survivors = <<>>) => (pc = "raised" /\ error = "ValueError")
    /\ (pc # "build" /\ Survivors # <<>>) => error # "ValueError"

\* C2 witness: every image failed although a caption was rendered, and the
\* zero-slides error was raised
C2_Witness ==
    /\ pc = "raised"
    /\ error = "ValueError"
    /\ text_clips # <<>>
    /\ Len(texts) >= 2

\* C3 (as claimed): when no music path is given, or the audio source is
\* missing or unreadable, the composed video is still handed to the renderer,
\* without an audio track, and no error is raised for the audio.
C3_AudioOptional ==
    (Returned /\ Composed
       /\ (music_path = None \/ ~MusicExists(music_path) \/ ~final_video.audio)) =>
        /\ write_called
        /\ ~final_video.audio
        /\ error \in {"none", "RenderError"}

\* C4: with n >= 1 surviving slides, the base image track folded through
\* apply_image_transition lasts the sum of their durations minus (n-1) * tau.
C4_BaseTrackDuration ==
    base_track # NoTrack =>
        /\ Len(image_clips) >= 1
        /\ base_track.duration =
              SumDurations(image_clips) - (Len(image_clips) - 1) * TRANSITION_DURATION
        /\ base_track.duration =
              SumGiven(Survivors) - (Len(Survivors) - 1) * TRANSITION_DURATION

\* C4 witness: durations [5, 5] give a base track of 9.7 s
C4_Witness ==
    /\ Len(image_clips) = 2
    /\ image_clips[1].duration = 50
    /\ image_clips[2].duration = 50
    /\ base_track.duration = 97

\* C5: for the surviving slides in order, s_0 = 0, s_i = s_(i-1) + d_(i-1) - tau
\* for i > 0, and t_i = s_i + tau for every i.
C5_StartTimes ==
    start_times # <<>> =>
        /\ Len(start_times) = Len(image_clips)
        /\ Len(text_start_times) = Len(image_clips)
        /\ start_times[1] = 0
        /\ \A k \in 2..Len(start_times) :
              start_times[k] =
                  start_times[k - 1] + image_clips[k - 1].duration - TRANSITION_DURATION
        /\ \A k \in 1..Len(start_times) :
              text_start_times[k] = start_times[k] + TRANSITION_DURATION

\* C5 witness: durations [5, 5] give image starts [0, 4.7] and text starts
\* [0.3, 5.0]
C5_Witness ==
    /\ SlidesOf(image_clips) = <<0, 1>>
    /\ start_times = <<0, 47>>
    /\ text_start_times = <<3, 50>>

\* C6 (as claimed): the text layer of slide i lasts max(d_i - 2 tau, 0.1) when
\* slide i is not the last slide and max(d_i - tau, 0.1) when it is.
C6_TextDurationLastSlide ==
    \A k \in 1..Len(text_clips) :
        LET c == text_clips[k]
            d == GivenDuration(c.slide)
        IN  c.duration =
                IF c.slide = Len(texts) - 1
                THEN Max(d - TRANSITION_DURATION, MIN_TEXT_DURATION)
                ELSE Max(d - 2 * TRANSITION_DURATION, MIN_TEXT_DURATION)

\* C6 (amended): the text layer of every slide i, the last one included, lasts
\* max(d_i - 2 tau, 0.1), and it is on screen that long in the timeline.
C6_TextDuration ==
    /\ \A k \in 1..Len(text_clips) :
          LET c == text_clips[k]
              d == GivenDuration(c.slide)
          IN  /\ d - 2 * TRANSITION_DURATION >= MIN_TEXT_DURATION
                    => c.duration = d - 2 * TRANSITION_DURATION
              /\ d - 2 * TRANSITION_DURATION < MIN_TEXT_DURATION
                    => c.duration = MIN_TEXT_DURATION
    /\ \A k \in 1..Len(final_video.texts) :
          final_video.texts[k].end - final_video.texts[k].start =
              final_video.texts[k].clip.duration

\* C6 witness: the last slide, 5 s long, has a text layer of 4.4 s in the
\* composed timeline
C6_Witness ==
    /\ Composed
    /\ \E k \in 1..Len(final_video.texts) :
          /\ final_video.texts[k].clip.slide = Len(texts) - 1
          /\ GivenDuration(Len(texts) - 1) = 50
          /\ final_video.texts[k].clip.duration = 44

\* C7 (as claimed): with positive slide durations the composed video lasts as
\* long as the base image track: no text layer ends after the base track ends.
C7_TextWithinBaseTrack ==
    Composed =>
        /\ final_video.duration = base_track.duration
        /\ \A k \in 1..Len(final_video.texts) :
              final_video.texts[k].end <= base_track.duration

\* C8 (as claimed): the factor of slide i's image layer is the scalar when
\* darkening is a scalar, darkening[i] when it is a list and i < len(darkening),
\* and the last value of the list when the list is not empty and
\* i >= len(darkening).
C8_DarkenReusesLast ==
    \A k \in 1..Len(image_clips) :
        LET c == image_clips[k]
            l == darkening.list
        IN  /\ darkening.kind = "scalar" => c.darken = darkening.value
            /\ (darkening.kind = "list" /\ c.slide < Len(l)) => c.darken = l[c.slide + 1]
            /\ (darkening.kind = "list" /\ l # <<>> /\ c.slide >= Len(l))
                  => c.darken = l[Len(l)]

\* C8 (amended): the factor of slide i's image layer is the scalar when
\* darkening is a scalar, darkening[i] when it is a list and i < len(darkening),
\* and 1.0 (the image is left as it is) when the list is not empty and
\* i >= len(darkening).
C8_DarkenFactor ==
    \A k \in 1..Len(image_clips) :
        LET c == image_clips[k]
            l == darkening.list
        IN  /\ darkening.kind = "scalar" => c.darken = darkening.value
            /\ (darkening.kind = "list" /\ c.slide < Len(l)) => c.darken = l[c.slide + 1]
            /\ (darkening.kind = "list" /\ l # <<>> /\ c.slide >= Len(l))
                  => c.darken = DEFAULT_DARKEN

\* C8 witness: an image layer of a slide past the end of a non-empty list has
\* factor 1.0, another one inside the list has the list's value
C8_Witness ==
    /\ darkening.kind = "list"
    /\ darkening.list # <<>>
    /\ \E k \in 1..Len(image_clips) :
          /\ image_clips[k].slide >= Len(darkening.list)
          /\ image_clips[k].darken = DEFAULT_DARKEN
    /\ \E k \in 1..Len(image_clips) :
          /\ image_clips[k].slide < Len(darkening.list)
          /\ image_clips[k].darken = 4

\* The position string given for slide k (0-based), empty when there is none
EntryOf(k) ==
    IF k < Len(positions) THEN positions[k + 1] ELSE [kind |-> "empty", centi |-> 0]

\* u is H * centi / 10000 rounded to the nearest integer (a tie either way)
IsNearest(u, centi, H) ==
    /\ 2 * (H * centi) >= 10000 * (2 * u - 1)
    /\ 2 * (H * centi) <= 10000 * (2 * u + 1)

\* u is H * centi / 10000 with its fraction dropped
IsTruncation(u, centi, H) ==
    IF H * centi >= 0
    THEN 10000 * u <= H * centi /\ H * centi < 10000 * (u + 1)
    ELSE 10000 * (u - 1) < H * centi /\ H * centi <= 10000 * u

\* y is clamp(round(H * centi / 10000), lo, hi): y is the rounded value when
\* it is inside, lo when the rounded value is lo or less, hi when it is hi or more
IsClampedNearest(y, centi, H, lo, hi) ==
    \/ lo < y /\ y < hi /\ IsNearest(y, centi, H)
    \/ y = lo /\ 2 * (H * centi) <= 10000 * (2 * lo + 1)
    \/ y = hi /\ 2 * (H * centi) >= 10000 * (2 * hi - 1)

\* y is clamp(trunc(H * centi / 10000), lo, hi), lo >= 0
IsClampedTruncation(y, centi, H, lo, hi) ==
    \/ lo < y /\ y < hi /\ IsTruncation(y, centi, H)
    \/ y = lo /\ H * centi < 10000 * (lo + 1)
    \/ y = hi /\ H * centi >= 10000 * hi

C10_TransitionVariety ==
    (Len(texts) <= Cardinality(TEXT_TRANSITIONS)
       /\ \A k \in 0..(Len(texts) - 1) : ExplicitTransition(transitions, k) = None) =>
        /\ \A j, k \in 1..Len(text_clips) :
              j # k => text_clips[j].transition # text_clips[k].transition
        /\ \A k \in 1..Len(text_clips) :
              /\ text_clips[k].transition \in TEXT_TRANSITIONS
              /\ text_clips[k].transition \notin available_transitions
        /\ Cardinality(available_transitions) = Cardinality(TEXT_TRANSITIONS) - i

\* C10 witness: three slides drew three different names
C10_Witness ==
    /\ Len(text_clips) >= 2
    /\ transitions = <<>>
    /\ text_clips[1].transition # text_clips[2].transition
    /\ Cardinality(available_transitions) = Cardinality(TEXT_TRANSITIONS) - Len(texts)

\* The text layer is at its resting point all the time and nothing else is
\* animated: the position function of l.94-106 goes from start to the resting
\* point and from there to end, so it is constant when both are the resting point
AtRest(animation) ==
    /\ animation.kind \in {"none", "slide"}
    /\ animation.start = "rest"
    /\ animation.end = "rest"

\* C11 (as claimed): for a transition name outside the text-transition catalog,
\* a slide_ name with an unrecognized side included, apply_text_transition
\* leaves the clip at its resting position with no animation; for an effect
\* name outside the image-effect catalog apply_image_effect returns the image
\* clip unchanged; neither raises for an unknown name.
C11_UnknownNameFallback ==
    /\ pc = "build" => error = "none"
    /\ \A k \in 1..Len(text_clips) :
          text_clips[k].transition \notin TEXT_TRANSITIONS
              => AtRest(text_clips[k].animation)
    /\ \A k \in 1..Len(image_clips) :
          image_clips[k].effect \notin IMAGE_EFFECTS
              => image_clips[k].transform = "unchanged"

\* C12: slide i is built from image_paths[i mod len(image_paths)], so a call
\* with fewer images than texts raises nothing for it and builds every slide
\* whose caption and image are usable.
C12_CyclicImageReuse ==
    /\ pc = "build" => error = "none"
    /\ \A k \in 1..Len(image_clips) :
          \E r \in 0..(Len(image_paths) - 1) :
              /\ (image_clips[k].slide - r) % Len(image_paths) = 0
              /\ image_clips[k].path = image_paths[r + 1]
    /\ (pc # "build" /\ unrenderable = {} /\ missing_images = {})
          => Len(image_clips) = Len(texts)

\* C12 witness: with two images and three texts, the third slide is built from
\* the first image again
C12_Witness ==
    /\ Len(image_paths) = 2
    /\ Len(texts) = 3
    /\ \E k \in 1..Len(image_clips) :
          /\ image_clips[k].slide = 2
          /\ image_clips[k].path = image_paths[1]

\* The duration of the text layer built for the slide of the k-th image layer
OwnTextDuration(k) ==
    LET own == SelectSeq(text_clips, LAMBDA c : c.slide = image_clips[k].slide)
    IN  own[1].duration

\* C13 (as claimed): for every scheduled slide i the "ends during fade-out"
\* warning is printed exactly when t_i + textDuration_i > s_i + d_i - tau,
\* textDuration_i being the duration of slide i's own text layer; the "starts
\* during fade-in" warning is never printed; a warning never stops the render.
C13_OverlapDiagnostics ==
    pc \notin {"build", "fold", "schedule", "overlap"} /\ start_times # <<>> =>
        /\ \A k \in 1..Len(start_times) :
              (<<k - 1, "fade-out">> \in warnings) <=>
                  (text_start_times[k] + OwnTextDuration(k)
                      > start_times[k] + image_clips[k].duration - TRANSITION_DURATION)
        /\ \A k \in 1..Len(start_times) : <<k - 1, "fade-in">> \notin warnings
        /\ error \notin {"ValueError"}

\* C14 (as claimed): on every exit of generate_video after the audio phase
\* (normal return, render failure, audio-loop failure after the export), the
\* temporary looped-audio file no longer exists and the audio handle is closed.
C14_TempAudioReleased ==
    (Returned /\ write_called) => (~temp_file /\ ~audio_open)

\* Two calls with music: this one from its start, the second one composed and
\* about to loop its audio
InitConcurrent ==
    /\ texts \in {Captions(n) : n \in 1..MaxTexts}
    /\ image_paths \in {SubSeq(ImageNames, 1, m) : m \in 1..MaxImages}
    /\ music_path = "music.mp3"
    /\ size = DefaultSize
    /\ positions = <<>>
    /\ durations = <<>>
    /\ darkening = NoDarkening
    /\ transitions = [k \in 1..Len(texts) |-> "fade"]
    /\ image_effects = <<>>
    /\ unrenderable = {}
    /\ missing_images = {}
    /\ InitLocals
    /\ other = [NoOther EXCEPT !.pc = "audio"]

SpecConcurrent == InitConcurrent /\ [][NextConcurrent]_vars

\* C15 (as claimed): of two concurrent calls with music, each renders with the
\* looped-audio file it exported itself: while a call has its audio attached
\* and has not finished rendering, the file exists and holds that call's
\* export (no other call has overwritten or deleted it).
C15_ConcurrentIsolation ==
    /\ (pc = "render" /\ final_video.audio) =>
           (temp_file /\ temp_writer = "this")
    /\ (other.pc = "render" /\ other.audio) =>
           (temp_file /\ temp_writer = "other")

====
